---- MODULE Spec2Model ----
(***************************************************************************)
(* The auctions application: listings, bids, comments and watchlists kept  *)
(* in the database, and the request handlers of auctions/views.py that     *)
(* read and change them.  In Spec every handler runs to completion before  *)
(* the next request is served; in the Concurrent specifications two        *)
(* requests are in progress at a time and a step is one query.  Decimal    *)
(* amounts are integers (hundredths); an optional value (None or a value)  *)
(* is the empty set or a singleton.                                        *)
(***************************************************************************)
EXTENDS Integers, Sequences, FiniteSets

\* The database holds at most MaxRows rows, all tables together.
MaxRows == 3

\* request.user of a request without a session (AnonymousUser)
Anonymous == 0
\* The registered users (primary keys of User)
Users == {1, 2}
Requesters == Users \cup {Anonymous}
\* The amounts a form submits, in hundredths: DecimalField takes negative,
\* zero and positive values
Amounts == {0 - 1, 0, 1}
\* The primary keys the Listing table gives out
ListingPks == {1, 2}

\* The server's workers: two requests can be in progress at the same time
Workers == {1, 2}

\* The tables (a row's primary key is its place in the sequence; each user's
\* Watchlist rows, each row the set of listings it holds), the answer to the
\* last request answered, and what each worker holds of the request it is in
\* the middle of
VARIABLES listings, bids, comments, watchlists, resp, handling

vars == <<listings, bids, comments, watchlists, resp, handling>>

BID_TOO_LOW == "Bid must be higher than the highest bid!"
BELOW_STARTING_PRICE == "Bid must be higher or equal to the starting price!"
PLACED_BID == "Placed bid!"
ALREADY_WATCHED == "This is already on your watchlist."
ADDED == "Added to the watchlist."
REMOVED == "Removed from watchlist."
CLOSED_NO_BIDS == "Auction closed, there were no bids."
CLOSED_WINNER == "Auction closed, winner is: "
NoNotice == ""

\* What a request was answered: the outcome, the one-shot notice and the user
\* the notice names (none or one).
Response(status, notice, named) ==
    [status |-> status, notice |-> notice, named |-> named]

Redirect == "redirect"
Rendered == "rendered"
NotFound == "404"
LoginRequired == "login"
ServerError == "500"

\* A worker between two requests, and one in the middle of a request: the
\* statement it is about to run and the view's local variables (request.user,
\* pk, the form's amount, the row a query returned: none or one)
Idle == [step |-> "idle", user |-> Anonymous, pk |-> 0, amount |-> 0, row |-> {}]
Busy(step, u, pk, amount, row) ==
    [step |-> step, user |-> u, pk |-> pk, amount |-> amount, row |-> row]

Exists(pk) == pk \in DOMAIN listings

\* The primary keys requests are addressed to: those of the listings and one
\* that is no listing's
Pks == DOMAIN listings \cup {Len(listings) + 1}

\* listing.bids
BidsOf(pk) == {i \in DOMAIN bids : bids[i].listing = pk}

\* listing.bids.exists()
BidsExist(pk) == \E i \in DOMAIN bids : bids[i].listing = pk

Max(S) == CHOOSE x \in S : \A y \in S : y <= x

\* aggregate(Max("amount"))["amount__max"], annotate(highest_bid=Max("bids__amount"))
AmountMax(pk) ==
    LET own == BidsOf(pk)
    IN  IF own = {} THEN {} ELSE {Max({bids[i].amount : i \in own})}

\* Python's  x or y  on an optional Decimal: None and Decimal(0) are falsy
Or(x, y) == IF x = {} \/ x = {0} THEN y ELSE Max(x)

\* BidFormView._get_listing: listing.price
BidPrice(pk) == Or(AmountMax(pk), listings[pk].starting_bid)

\* ListingView._get_listing: listing.price
DetailPrice(pk) == Or(AmountMax(pk), listings[pk].starting_bid)

\* _add_listing_display_attributes: listing.price
DisplayPrice(pk) == Or(AmountMax(pk), listings[pk].starting_bid)

\* An empty database, and the answer to a first GET of the index page
Init ==
    /\ listings = <<>>
    /\ bids = <<>>
    /\ comments = <<>>
    /\ watchlists = [u \in Users |-> <<>>]
    /\ resp = Response(Rendered, NoNotice, {})
    /\ handling = [w \in Workers |-> Idle]

\* Rows of the Watchlist table and of its many-to-many table
RECURSIVE WatchRows(_)
WatchRows(us) ==
    IF us = {} THEN 0
    ELSE LET u == CHOOSE x \in us : TRUE
         IN  Len(watchlists[u])
             + (IF watchlists[u] = <<>> THEN 0 ELSE Cardinality(watchlists[u][1]))
             + (IF Len(watchlists[u]) < 2 THEN 0 ELSE Cardinality(watchlists[u][2]))
             + WatchRows(us \ {u})

RowCount == Len(listings) + Len(bids) + Len(comments) + WatchRows(Users)

\* An insert of k rows fits
Room(k) == RowCount + k <= MaxRows

\* A request that changes nothing in the database
Answer(r) ==
    /\ resp' = r
    /\ UNCHANGED <<listings, bids, comments, watchlists, handling>>

\* @login_required (create, watch, unwatch, close, watchlist_view): an
\* unauthenticated request is sent to the login page before the view runs
login_required ==
    Answer(Response(LoginRequired, NoNotice, {}))

\* Listing row as ListingForm.save() writes it
NewListing(u, sb) == [owner |-> u, starting_bid |-> sb, active |-> TRUE, winner |-> {}]

\* create (POST, valid form)
create(u, sb) ==
    /\ Len(listings) + 1 \in ListingPks
    /\ Room(1)
    /\ listings' = Append(listings, NewListing(u, sb))
    /\ resp' = Response(Redirect, NoNotice, {})
    /\ UNCHANGED <<bids, comments, watchlists, handling>>

\* BidNotice with the second comparison  <=  in place of  <
BidNotice_nonstrict(pk, amount) ==
    LET price == BidPrice(pk)
    IN  IF BidsExist(pk) /\ amount <= price THEN BID_TOO_LOW
        ELSE IF amount <= price THEN BELOW_STARTING_PRICE
        ELSE PLACED_BID

\* The two comparisons of BidFormView.form_valid and the notice they choose
BidNotice(pk, amount) ==
    LET price == BidPrice(pk)
    IN  IF BidsExist(pk) /\ amount <= price THEN BID_TOO_LOW
        ELSE IF amount < price THEN BELOW_STARTING_PRICE
        ELSE PLACED_BID

\* form_valid that keeps one bid per bidder and listing: a bidder's new amount
\* overwrites the earlier bid's
form_valid_update(u, pk, amount) ==
    IF u = Anonymous
    THEN Answer(Response(ServerError, NoNotice, {}))
    ELSE IF ~Exists(pk)
    THEN Answer(Response(NotFound, NoNotice, {}))
    ELSE LET notice == BidNotice(pk, amount)
             own == {i \in BidsOf(pk) : bids[i].bidder = u}
         IN  IF notice # PLACED_BID
             THEN Answer(Response(Redirect, notice, {}))
             ELSE /\ bids' = IF own = {}
                             THEN Append(bids, [listing |-> pk, bidder |-> u, amount |-> amount])
                             ELSE [i \in DOMAIN bids |->
                                     IF i \in own THEN [bids[i] EXCEPT !.amount = amount]
                                     ELSE bids[i]]
                  /\ resp' = Response(Redirect, PLACED_BID, {})
                  /\ UNCHANGED <<listings, comments, watchlists, handling>>
                  /\ Room(1)

\* BidFormView.form_valid (POST, valid form)
form_valid(u, pk, amount) ==
    IF u = Anonymous
    THEN Answer(Response(ServerError, NoNotice, {}))
    ELSE IF ~Exists(pk)
    THEN Answer(Response(NotFound, NoNotice, {}))
    ELSE LET notice == BidNotice(pk, amount)
         IN  IF notice # PLACED_BID
             THEN Answer(Response(Redirect, notice, {}))
             ELSE /\ bids' = Append(bids, [listing |-> pk, bidder |-> u, amount |-> amount])
                  /\ resp' = Response(Redirect, PLACED_BID, {})
                  /\ UNCHANGED <<listings, comments, watchlists, handling>>
                  /\ Room(1)

\* comment that saves the row whoever the requester is
comment_anyone(u, pk) ==
    IF ~Exists(pk)
    THEN Answer(Response(NotFound, NoNotice, {}))
    ELSE /\ Room(1)
         /\ comments' = Append(comments, [listing |-> pk, author |-> u])
         /\ resp' = Response(Redirect, NoNotice, {})
         /\ UNCHANGED <<listings, bids, watchlists, handling>>

\* CommentFormView.form_valid (POST, valid form)
comment(u, pk) ==
    IF u = Anonymous
    THEN Answer(Response(ServerError, NoNotice, {}))
    ELSE IF ~Exists(pk)
    THEN Answer(Response(NotFound, NoNotice, {}))
    ELSE /\ Room(1)
         /\ comments' = Append(comments, [listing |-> pk, author |-> u])
         /\ resp' = Response(Redirect, NoNotice, {})
         /\ UNCHANGED <<listings, bids, watchlists, handling>>

\* Watched with filter(user=u) only: the listing is not looked at
Watched_any_listing(u, pk) == watchlists[u] # <<>>

\* Watchlist.objects.filter(user=u, listing=pk).exists()
Watched(u, pk) == \E i \in DOMAIN watchlists[u] : pk \in watchlists[u][i]

\* watch
watch(u, pk) ==
    IF ~Exists(pk)
    THEN Answer(Response(NotFound, NoNotice, {}))
    ELSE IF Watched(u, pk)
    THEN Answer(Response(Redirect, ALREADY_WATCHED, {}))
    ELSE IF Len(watchlists[u]) > 1
    THEN Answer(Response(ServerError, NoNotice, {}))
    ELSE /\ Room(IF watchlists[u] = <<>> THEN 2 ELSE 1)
         /\ watchlists' = [watchlists EXCEPT ![u] =
                              IF watchlists[u] = <<>> THEN <<{pk}>>
                              ELSE <<watchlists[u][1] \cup {pk}>>]
         /\ resp' = Response(Redirect, ADDED, {})
         /\ UNCHANGED <<listings, bids, comments, handling>>

\* unwatch
unwatch(u, pk) ==
    IF ~Exists(pk)
    THEN Answer(Response(NotFound, NoNotice, {}))
    ELSE IF Len(watchlists[u]) # 1
    THEN Answer(Response(ServerError, NoNotice, {}))
    ELSE /\ watchlists' = [watchlists EXCEPT ![u] = <<watchlists[u][1] \ {pk}>>]
         /\ resp' = Response(Redirect, REMOVED, {})
         /\ UNCHANGED <<listings, bids, comments, handling>>

\* HighestBids with order_by("amount"): the lowest bid comes first
HighestBids_lowest(pk) ==
    {i \in BidsOf(pk) : \A j \in BidsOf(pk) : bids[i].amount <= bids[j].amount}

\* HighestBids without filter(listing=pk): the bids of every listing
HighestBids_all(pk) ==
    {i \in DOMAIN bids : \A j \in DOMAIN bids : bids[j].amount <= bids[i].amount}

\* Bid.objects.filter(listing=pk).order_by("-amount")[0]: the rows that can come
\* first (the order among equal amounts is the database's choice)
HighestBids(pk) ==
    LET own == BidsOf(pk)
    IN  {i \in own : \A j \in own : bids[j].amount <= bids[i].amount}

\* Deactivated that flips the flag instead of clearing it
Deactivated_toggle(pk) ==
    IF Exists(pk) THEN [listings EXCEPT ![pk].active = ~@] ELSE listings

\* Listing.objects.filter(pk=pk).update(active=False)
Deactivated(pk) ==
    IF Exists(pk) THEN [listings EXCEPT ![pk].active = FALSE] ELSE listings

\* Awarded that writes the winner and leaves the flag
Awarded_winner_only(pk, auction_winner) ==
    IF Exists(pk) THEN [listings EXCEPT ![pk].winner = {auction_winner}] ELSE listings

\* Listing.objects.filter(pk=pk).update(active=False, winner=auction_winner)
Awarded(pk, auction_winner) ==
    IF Exists(pk)
    THEN [listings EXCEPT ![pk].active = FALSE, ![pk].winner = {auction_winner}]
    ELSE listings

\* close
close(u, pk) ==
    LET first == HighestBids(pk)
    IN  IF first = {}
        THEN /\ listings' = Deactivated(pk)
             /\ resp' = Response(Redirect, CLOSED_NO_BIDS, {})
             /\ UNCHANGED <<bids, comments, watchlists, handling>>
        ELSE \E b \in first :
             /\ listings' = Awarded(pk, bids[b].bidder)
             /\ resp' = Response(Redirect, CLOSED_WINNER, {bids[b].bidder})
             /\ UNCHANGED <<bids, comments, watchlists, handling>>

\* ListingView.get_context_data: the owner, winner and watched flags
Context(u, pk) ==
    {f \in {"owner"} : u # Anonymous /\ u = listings[pk].owner}
    \cup {f \in {"winner"} : {u} = listings[pk].winner}
    \cup {f \in {"watched"} : u # Anonymous /\ Watched(u, pk)}

\* ListingView (GET): the page shows the listing's price and the flags
DetailPage(u, pk) == <<DetailPrice(pk), Context(u, pk)>>

ListingView(pk) ==
    IF ~Exists(pk)
    THEN Answer(Response(NotFound, NoNotice, {}))
    ELSE Answer(Response(Rendered, NoNotice, {}))

\* index: the active listings, each with its price
IndexPage == {<<pk, DisplayPrice(pk)>> : pk \in {k \in DOMAIN listings : listings[k].active}}

\* watchlist_view: the requester's watched listings, each with its price
WatchlistPage(u) == {<<pk, DisplayPrice(pk)>> : pk \in {k \in DOMAIN listings : Watched(u, k)}}

Next ==
    \/ login_required
    \/ \E u \in Users, sb \in Amounts : create(u, sb)
    \/ \E u \in Requesters, pk \in Pks, amount \in Amounts : form_valid(u, pk, amount)
    \/ \E u \in Requesters, pk \in Pks : comment(u, pk)
    \/ \E u \in Users, pk \in Pks : watch(u, pk)
    \/ \E u \in Users, pk \in Pks : unwatch(u, pk)
    \/ \E u \in Users, pk \in Pks : close(u, pk)
    \/ \E pk \in Pks : ListingView(pk)

Spec == Init /\ [][Next]_vars

(***************************************************************************)
(* The same handlers with two requests in progress at the same time.  The  *)
(* views open no transaction and take no lock, so each query is a step of  *)
(* its own and a worker holds what its view has read so far.               *)
(***************************************************************************)

\* The view returns: the request is answered and the worker is free
Done(w, r) ==
    /\ resp' = r
    /\ handling' = [handling EXCEPT ![w] = Idle]

\* The rows that the bids in progress are about to insert
Saves == Cardinality({v \in Workers : handling[v].step = "save"})

\* BidFormView.form_valid up to form.save(): the listing's price is read and
\* the amount compared with it (a bid that passes is taken up only if its row
\* will fit)
form_valid_check(w, u, pk, amount) ==
    /\ handling[w] = Idle
    /\ IF ~Exists(pk)
       THEN Answer(Response(NotFound, NoNotice, {}))
       ELSE LET notice == BidNotice(pk, amount)
            IN  IF notice # PLACED_BID
                THEN Answer(Response(Redirect, notice, {}))
                ELSE /\ Room(1 + Saves)
                     /\ handling' = [handling EXCEPT ![w] = Busy("save", u, pk, amount, {})]
                     /\ UNCHANGED <<listings, bids, comments, watchlists, resp>>

\* form_valid_save that compares the amount with the price once more, as
\* under a lock on the listing, and saves only a bid that still passes
form_valid_save_compared(w) ==
    /\ handling[w].step = "save"
    /\ LET notice == BidNotice(handling[w].pk, handling[w].amount)
       IN  IF notice # PLACED_BID
           THEN /\ Done(w, Response(Redirect, notice, {}))
                /\ UNCHANGED <<listings, bids, comments, watchlists>>
           ELSE /\ Room(1)
                /\ bids' = Append(bids, [listing |-> handling[w].pk,
                                         bidder |-> handling[w].user,
                                         amount |-> handling[w].amount])
                /\ Done(w, Response(Redirect, PLACED_BID, {}))
                /\ UNCHANGED <<listings, comments, watchlists>>

\* BidFormView.form_valid: form.save() and the redirect
form_valid_save(w) ==
    /\ handling[w].step = "save"
    /\ Room(1)
    /\ bids' = Append(bids, [listing |-> handling[w].pk, bidder |-> handling[w].user,
                             amount |-> handling[w].amount])
    /\ Done(w, Response(Redirect, PLACED_BID, {}))
    /\ UNCHANGED <<listings, comments, watchlists>>

\* close: the query for the highest bid and its bidder (auction_winner, or
\* IndexError)
close_first(w, pk) ==
    /\ handling[w] = Idle
    /\ LET first == HighestBids(pk)
       IN  \E auction_winner \in IF first = {} THEN {{}}
                                 ELSE {{bids[b].bidder} : b \in first} :
              handling' = [handling EXCEPT ![w] = Busy("update", Anonymous, pk, 0, auction_winner)]
    /\ UNCHANGED <<listings, bids, comments, watchlists, resp>>

\* close_update that runs the query for the highest bid again and writes its
\* bidder
close_update_again(w) ==
    /\ handling[w].step = "update"
    /\ LET pk == handling[w].pk
           first == HighestBids(pk)
       IN  IF first = {}
           THEN /\ listings' = Deactivated(pk)
                /\ Done(w, Response(Redirect, CLOSED_NO_BIDS, {}))
           ELSE \E b \in first :
                /\ listings' = Awarded(pk, bids[b].bidder)
                /\ Done(w, Response(Redirect, CLOSED_WINNER, {bids[b].bidder}))
    /\ UNCHANGED <<bids, comments, watchlists>>

\* close: the update of the listing and the redirect
close_update(w) ==
    /\ handling[w].step = "update"
    /\ LET pk == handling[w].pk
           auction_winner == handling[w].row
       IN  IF auction_winner = {}
           THEN /\ listings' = Deactivated(pk)
                /\ Done(w, Response(Redirect, CLOSED_NO_BIDS, {}))
           ELSE /\ listings' = Awarded(pk, Max(auction_winner))
                /\ Done(w, Response(Redirect, CLOSED_WINNER, auction_winner))
    /\ UNCHANGED <<bids, comments, watchlists>>

\* watch up to get_or_create: the listing is looked up and the watchlist
\* searched for it
watch_exists(w, u, pk) ==
    /\ handling[w] = Idle
    /\ IF ~Exists(pk)
       THEN Answer(Response(NotFound, NoNotice, {}))
       ELSE IF Watched(u, pk)
       THEN Answer(Response(Redirect, ALREADY_WATCHED, {}))
       ELSE /\ handling' = [handling EXCEPT ![w] = Busy("get", u, pk, 0, {})]
            /\ UNCHANGED <<listings, bids, comments, watchlists, resp>>

\* get_or_create(user=request.user): the query for the user's Watchlist row
\* (MultipleObjectsReturned if there are two)
watch_get(w) ==
    /\ handling[w].step = "get"
    /\ LET u == handling[w].user
       IN  IF Len(watchlists[u]) > 1
           THEN Done(w, Response(ServerError, NoNotice, {}))
           ELSE /\ handling' = [handling EXCEPT ![w] =
                       IF watchlists[u] = <<>> THEN [@ EXCEPT !.step = "create"]
                       ELSE [@ EXCEPT !.step = "add", !.row = {1}]]
                /\ resp' = resp
    /\ UNCHANGED <<listings, bids, comments, watchlists>>

\* get_or_create(user=request.user): no row was found, one is inserted
watch_create(w) ==
    /\ handling[w].step = "create"
    /\ Room(1)
    /\ LET u == handling[w].user
       IN  /\ watchlists' = [watchlists EXCEPT ![u] = Append(@, {})]
           /\ handling' = [handling EXCEPT ![w] =
                  [@ EXCEPT !.step = "add", !.row = {Len(watchlists[u]) + 1}]]
    /\ UNCHANGED <<listings, bids, comments, resp>>

\* watch: watchlist.listing.add(listing_to_watch) and the redirect
watch_add(w) ==
    /\ handling[w].step = "add"
    /\ LET u == handling[w].user
           pk == handling[w].pk
           row == Max(handling[w].row)
       IN  /\ pk \in watchlists[u][row] \/ Room(1)
           /\ watchlists' = [watchlists EXCEPT ![u][row] = @ \cup {pk}]
    /\ Done(w, Response(Redirect, ADDED, {}))
    /\ UNCHANGED <<listings, bids, comments>>

\* A worker is free to take a request
Free == \E w \in Workers : handling[w] = Idle

\* The free worker that takes the next request: the first one
Takes(w) == handling[w] = Idle /\ \A v \in Workers : v < w => handling[v] # Idle

\* Bid and close requests on the listings that exist, two at a time
BidsNext ==
    \/ \E u \in Users, sb \in Amounts : Free /\ create(u, sb)
    \/ \E w \in Workers, u \in Users, pk \in DOMAIN listings, amount \in Amounts :
          Takes(w) /\ form_valid_check(w, u, pk, amount)
    \/ \E w \in Workers : form_valid_save(w)
    \/ \E w \in Workers, pk \in DOMAIN listings : Takes(w) /\ close_first(w, pk)
    \/ \E w \in Workers : close_update(w)

ConcurrentBids == Init /\ [][BidsNext]_vars

\* Watch and unwatch requests, two at a time
WatchNext ==
    \/ \E u \in Users, sb \in Amounts : Free /\ create(u, sb)
    \/ \E w \in Workers, u \in Users, pk \in Pks :
          Takes(w) /\ watch_exists(w, u, pk)
    \/ \E w \in Workers : watch_get(w)
    \/ \E w \in Workers : watch_create(w)
    \/ \E w \in Workers : watch_add(w)
    \/ \E u \in Users, pk \in Pks : Free /\ unwatch(u, pk)

ConcurrentWatch == Init /\ [][WatchNext]_vars

\* Amounts that leave room for a bid between a negative starting bid and zero
WideAmounts == Amounts \cup {0 - 2}

\* Bid and close requests as in BidsNext, the forms submitting the wider
\* amounts
WideBidsNext ==
    \/ \E u \in Users, sb \in WideAmounts : Free /\ create(u, sb)
    \/ \E w \in Workers, u \in Users, pk \in DOMAIN listings, amount \in WideAmounts :
          Takes(w) /\ form_valid_check(w, u, pk, amount)
    \/ \E w \in Workers : form_valid_save(w)
    \/ \E w \in Workers, pk \in DOMAIN listings : Takes(w) /\ close_first(w, pk)
    \/ \E w \in Workers : close_update(w)

ConcurrentWideBids == Init /\ [][WideBidsNext]_vars

(***************************************************************************)
(* The properties.  A step of a handler is recognised by the handler's     *)
(* action holding of it; unless a property says otherwise it speaks about  *)
(* requests by authenticated users on listings that exist.  Such a bid or  *)
(* close request is always answered by a redirect to the listing's page,   *)
(* so the properties about them look only at the steps that end in one.    *)
(***************************************************************************)

Redirected == resp'.status = Redirect

\* The amounts of the bids on a listing, and the highest of them
AmountsOf(pk) == {bids[i].amount : i \in BidsOf(pk)}
HighestAmount(pk) == Max(AmountsOf(pk))

\* The current price as the glossary defines it: the highest bid amount, or
\* the starting bid if there is no bid
CurrentPrice(pk) ==
    IF BidsOf(pk) = {} THEN listings[pk].starting_bid ELSE HighestAmount(pk)

NewBid(u, pk, amount) == [listing |-> pk, bidder |-> u, amount |-> amount]

\* C1: a bid on a listing that has bids, of an amount not above the highest
\* bid, is answered BID_TOO_LOW, adds no bid and leaves the price as it was.
C1_TooLowRejected ==
    [][\A u \in Users, pk \in DOMAIN listings, amount \in Amounts :
          (BidsExist(pk) /\ amount <= HighestAmount(pk) /\ form_valid(u, pk, amount))
          => /\ resp'.notice = BID_TOO_LOW
             /\ bids' = bids
             /\ DetailPrice(pk)' = DetailPrice(pk)]_vars

\* C2: a bid on a listing without bids is accepted exactly if its amount is at
\* least the starting bid; below it the answer is BELOW_STARTING_PRICE and the
\* price shown stays the starting bid.
C2_FirstBid ==
    [][Redirected => \A pk \in DOMAIN listings : \A u \in Users, amount \in Amounts :
          (~BidsExist(pk) /\ form_valid(u, pk, amount))
          => IF amount >= listings[pk].starting_bid
             THEN /\ bids' = Append(bids, NewBid(u, pk, amount))
                  /\ resp'.notice = PLACED_BID
             ELSE /\ bids' = bids
                  /\ resp'.notice = BELOW_STARTING_PRICE
                  /\ DetailPrice(pk)' = listings[pk].starting_bid
                  /\ DisplayPrice(pk)' = listings[pk].starting_bid]_vars

\* C2 witness: a first bid equal to the starting bid has just been placed
C2_Witness ==
    /\ resp.notice = PLACED_BID
    /\ \E pk \in DOMAIN listings :
          /\ Cardinality(BidsOf(pk)) = 1
          /\ AmountsOf(pk) = {listings[pk].starting_bid}
          /\ Len(bids) = 1

\* C3: an accepted bid adds one bid of the requester and the proposed amount
\* on the listing, and the listing's price is then that amount; a rejected bid
\* changes nothing in the database.
C3_BidEffect ==
    [][\A u \in Users, pk \in DOMAIN listings, amount \in Amounts :
          form_valid(u, pk, amount)
          => IF resp'.notice = PLACED_BID
             THEN /\ bids' = Append(bids, NewBid(u, pk, amount))
                  /\ UNCHANGED <<listings, comments, watchlists>>
                  /\ DetailPrice(pk)' = amount
             ELSE UNCHANGED <<listings, bids, comments, watchlists>>]_vars

\* C4: the price every view computes is the starting bid of a listing without
\* bids and the highest bid amount of a listing with bids.
C4_PriceIsCurrentPrice ==
    \A pk \in DOMAIN listings :
        /\ BidPrice(pk) = CurrentPrice(pk)
        /\ DetailPrice(pk) = CurrentPrice(pk)
        /\ DisplayPrice(pk) = CurrentPrice(pk)

C6_CloseNoBids ==
    [][Redirected => \A pk \in DOMAIN listings : \A u \in Users :
          (~BidsExist(pk) /\ close(u, pk))
          => /\ ~listings'[pk].active
             /\ listings'[pk].winner = {}
             /\ resp'.notice = CLOSED_NO_BIDS]_vars

\* C6 witness: a listing without bids has just been closed
C6_Witness ==
    /\ resp.notice = CLOSED_NO_BIDS
    /\ \E pk \in DOMAIN listings :
          ~listings[pk].active /\ listings[pk].winner = {} /\ BidsOf(pk) = {}

\* C7: a close request by a user who is not the listing's owner leaves the
\* listings (active flags and winners) as they were.
C7_OnlyOwnerCloses ==
    [][\A u \in Users, pk \in DOMAIN listings :
          (close(u, pk) /\ u # listings[pk].owner) => listings' = listings]_vars

\* C8: a listing whose active flag is false gets no further bid.
C8_NoBidsOnceClosed ==
    [][\A pk \in DOMAIN listings :
          ~listings[pk].active => BidsOf(pk)' = BidsOf(pk)]_vars

\* C9: a listing has a winner only if it is inactive and has a bid.
C9_WinnerOnlyClosedWithBids ==
    \A pk \in DOMAIN listings :
        listings[pk].winner # {} => (~listings[pk].active /\ BidsOf(pk) # {})

\* C9 witness: a listing has a winner
C9_Witness == \E pk \in DOMAIN listings : listings[pk].winner # {}

\* C10: a listing enters the table active and without winner, and an inactive
\* listing stays inactive at every step.
C10_ClosingIrreversible ==
    [][/\ \A pk \in DOMAIN listings' \ DOMAIN listings :
             listings'[pk].active /\ listings'[pk].winner = {}
       /\ \A pk \in DOMAIN listings :
             ~listings[pk].active => (pk \in DOMAIN listings' /\ ~listings'[pk].active)]_vars

\* C10 witness: a bid has just been placed while a closed listing exists
C10_Witness ==
    /\ resp.notice = PLACED_BID
    /\ \E pk \in DOMAIN listings : ~listings[pk].active

\* The Watchlist rows of a user that hold a listing
Memberships(u, pk) ==
    IF watchlists[u] = <<>> THEN 0
    ELSE Cardinality({i \in DOMAIN watchlists[u] : pk \in watchlists[u][i]})

\* C11: a watch request for a listing the user already watches is answered
\* ALREADY_WATCHED and changes no table, and after every watch request that
\* was answered ADDED or ALREADY_WATCHED the listing is in the user's
\* watchlist exactly once.
C11_WatchIdempotent ==
    [][/\ \A u \in Users, pk \in DOMAIN listings :
             (Memberships(u, pk) >= 1 /\ watch(u, pk))
             => /\ resp'.notice = ALREADY_WATCHED
                /\ UNCHANGED <<listings, bids, comments, watchlists>>
       /\ resp'.notice \in {ADDED, ALREADY_WATCHED}
          => \A u \in Users, pk \in DOMAIN listings :
                watch(u, pk) => Memberships(u, pk)' = 1]_vars

\* C11 witness: a watch request for a watched listing has just been answered
C11_Witness ==
    /\ resp.notice = ALREADY_WATCHED
    /\ \E u \in Users, pk \in DOMAIN listings : Memberships(u, pk) = 1

\* C12: an unwatch request of an authenticated user for a listing that exists
\* is answered as a success, whether or not the user watched the listing or
\* ever watched any, and the listing is then not in the user's watchlist.
C12_UnwatchSucceeds ==
    [][\A u \in Users, pk \in DOMAIN listings :
          unwatch(u, pk)
          => /\ resp'.status = Redirect
             /\ resp'.notice = REMOVED
             /\ Memberships(u, pk)' = 0]_vars

\* C13: every user has at most one Watchlist row in every state, also when
\* two watch requests of the user are in progress at the same time.
C13_OneWatchlist ==
    \A u \in Users : Len(watchlists[u]) <= 1

\* C14: a detail, bid, comment, watch, unwatch or close request of an
\* authenticated user addressed to a primary key that is no listing's is
\* answered not found, carries no notice and changes no table.
C14_NotFound ==
    [][\A pk \in Pks \ DOMAIN listings : \A u \in Users :
          (\/ ListingView(pk)
           \/ \E amount \in Amounts : form_valid(u, pk, amount)
           \/ comment(u, pk)
           \/ watch(u, pk)
           \/ unwatch(u, pk)
           \/ close(u, pk))
          => /\ resp'.status = NotFound
             /\ resp'.notice = NoNotice
             /\ UNCHANGED <<listings, bids, comments, watchlists>>]_vars

\* C15: a comment request of an unauthenticated requester adds no Comment
\* row, and a comment request that adds a row adds one row whose author is the
\* authenticated requester and whose listing is the one addressed.
C15_CommentsByAuthenticated ==
    [][comments' # comments
       => \A u \in Requesters, pk \in Pks :
             comment(u, pk)
             => /\ u # Anonymous
                /\ comments' = Append(comments, [listing |-> pk, author |-> u])]_vars

\* C15 witness: both users have commented and a request has just failed in
\* the view (such as an unauthenticated comment)
C15_Witness ==
    /\ resp.status = ServerError
    /\ {comments[i].author : i \in DOMAIN comments} = Users

\* C16: with requests handled one at a time, every bid is at least its
\* listing's starting bid and strictly above every earlier bid on the listing.
C16_BidsIncrease ==
    \A i \in DOMAIN bids :
        /\ bids[i].amount >= listings[bids[i].listing].starting_bid
        /\ \A j \in DOMAIN bids :
              (j < i /\ bids[j].listing = bids[i].listing)
              => bids[j].amount < bids[i].amount

\* C17: the bid handler saves a bid that passed its comparison without
\* comparing again: a bid in progress is saved as it is even if by now it no
\* longer passes against the current price, so that a bid can follow a bid of
\* the same or a higher amount on the same listing.
C17_StaleBidSaved ==
    [][\A w \in Workers :
          (handling[w].step = "save" /\ form_valid_save(w))
          => /\ bids' = Append(bids, NewBid(handling[w].user, handling[w].pk,
                                            handling[w].amount))
             /\ resp'.notice = PLACED_BID]_vars

\* C17 witness: two bids were accepted on one listing, the first not zero
\* and the second, just saved, not above the first
C17_Witness ==
    /\ resp.notice = PLACED_BID
    /\ Len(bids) = 2
    /\ bids[1].listing = bids[2].listing
    /\ bids[1].amount # 0
    /\ bids[2].amount <= bids[1].amount

\* C18: a listing that has bids when it becomes inactive has a winner from
\* that step on, and a listing that has a winner is inactive, also when close
\* and bid requests are in progress at the same time.
C18_CloseAtomic ==
    [][\A pk \in DOMAIN listings :
          /\ (listings[pk].active /\ ~listings'[pk].active /\ BidsExist(pk))
             => listings'[pk].winner # {}
          /\ listings'[pk].winner # {} => ~listings'[pk].active]_vars

\* C19: the update of a close request writes the winner its query found (or
\* none, if it found no bid) and clears the active flag, whatever bids the
\* listing has by then, so that the stored winner can be another user than
\* the bidder of the listing's highest bid.
C19_CloseWritesWhatItRead ==
    [][\A w \in Workers :
          (handling[w].step = "update" /\ Exists(handling[w].pk) /\ close_update(w))
          => LET pk == handling[w].pk
             IN  /\ ~listings'[pk].active
                 /\ listings'[pk].winner =
                       IF handling[w].row = {} THEN listings[pk].winner
                       ELSE handling[w].row]_vars

\* C19 witness: of two close requests in progress on the only listing, one
\* has just written a winner who is not the bidder of a highest bid, and the
\* other still holds another winner to write
C19_Witness ==
    /\ resp.notice = CLOSED_WINNER
    /\ Len(listings) = 1
    /\ ~listings[1].active
    /\ listings[1].winner = resp.named
    /\ \A b \in HighestBids(1) : {bids[b].bidder} # listings[1].winner
    /\ \E w \in Workers :
          /\ handling[w].step = "update"
          /\ handling[w].row \notin {{}, listings[1].winner}

\* C20: every step of every handler leaves each Bid row and each Comment row
\* there is in place and as it was, so the bids of a listing only grow.
C20_AppendOnly ==
    [][/\ \A i \in DOMAIN bids : i \in DOMAIN bids' /\ bids'[i] = bids[i]
       /\ \A i \in DOMAIN comments :
             i \in DOMAIN comments' /\ comments'[i] = comments[i]
       /\ \A pk \in DOMAIN listings : BidsOf(pk) \subseteq BidsOf(pk)']_vars

\* C20 witness: a user has just placed a second bid on a listing and the
\* first one is still there
C20_Witness ==
    /\ resp.notice = PLACED_BID
    /\ Len(bids) = 2
    /\ bids[1].listing = bids[2].listing
    /\ bids[1].bidder = bids[2].bidder

\* C21: once a listing has a winner, no later bid or close request changes
\* that winner.
C21_WinnerFinal ==
    [][\A pk \in DOMAIN listings :
          listings[pk].winner # {} => listings'[pk].winner = listings[pk].winner]_vars

\* C22: at every step, also of bid requests in progress at the same time,
\* no listing's price goes down, and the step of a bid or close request that
\* writes leaves the price, the active flag and the winner of every listing
\* other than the one it is addressed to as they were.
C22_PriceNeverDecreases ==
    [][/\ \A pk \in DOMAIN listings : DetailPrice(pk)' >= DetailPrice(pk)
       /\ \A w \in Workers :
             (handling[w].step \in {"save", "update"}
              /\ (form_valid_save(w) \/ close_update(w)))
             => \A other \in DOMAIN listings \ {handling[w].pk} :
                   /\ DetailPrice(other)' = DetailPrice(other)
                   /\ listings'[other] = listings[other]]_vars
====
